---- MODULE Spec2Model ----
(***************************************************************************)
(* Model of convert_bge_to_onnx.py: the script that downloads the          *)
(* BGE-Small model, saves it, exports it to ONNX and quantizes it.         *)
(*                                                                         *)
(* A run is one execution of the script as the main program.  The output   *)
(* directory is a relative path, so every run started in the same working  *)
(* directory shares it.  Each library call either returns or raises an     *)
(* Exception; a call that writes a file is modelled in two steps (the file *)
(* is opened, then completed) so that a failure can leave a partial file   *)
(* and so that two processes can be seen inside the same file.             *)
(***************************************************************************)
EXTENDS Integers, Sequences, FiniteSets, TLC

\* Number of runs of the script that the model follows.
MaxRuns == 3

Runs == 1..MaxRuns

\* The two script processes that the concurrent specification interleaves.
Instances == {1, 2}

VARIABLES pc, out, trace, completed, failedAt, caught, retval, exit, seen, wrote, dirKind, files

vars == <<pc, out, trace, completed, failedAt, caught, retval, exit, seen, wrote, dirKind, files>>

----------------------------------------------------------------------------
\* Constants of download_and_convert

model_name == "BAAI/bge-small-en-v1.5"

output_dir == "bge-small-onnx"

\* Path.__truediv__: a path is the directory and the file name.
PathJoin(dir, name) == <<dir, name>>

\* Path.name
PathName(p) == p[Len(p)]

onnx_path == PathJoin(output_dir, "model.onnx")

quantized_path_inplace == onnx_path

quantized_path == PathJoin(output_dir, "bge-small-en-v1.5-quantized.onnx")

\* What tokenizer.save_pretrained and model.save_pretrained write.
tokenizer_files == PathJoin(output_dir, "tokenizer files")

model_files == PathJoin(output_dir, "model files")

FileNames == {PathName(tokenizer_files), PathName(model_files), PathName(onnx_path), PathName(quantized_path)}

input_names == <<"input_ids", "attention_mask">>

output_names == <<"last_hidden_state">>

BatchSeqAxes == (0 :> "batch_size") @@ (1 :> "sequence_length")

dynamic_axes_no_output == ("input_ids" :> BatchSeqAxes) @@ ("attention_mask" :> BatchSeqAxes)

dynamic_axes == ("input_ids" :> BatchSeqAxes) @@ ("attention_mask" :> BatchSeqAxes) @@ ("last_hidden_state" :> BatchSeqAxes)

opset_version == 14

\* The graph that torch.onnx.export is asked to write.
ExportedGraph == [inputs |-> input_names, outputs |-> output_names, axes |-> dynamic_axes, opset |-> opset_version, weights |-> "float32"]

\* quantize_dynamic keeps the graph's contract and re-encodes the weights.
Quantized(g) == [g EXCEPT !.weights = "QUInt8"]

NoGraph == [inputs |-> <<>>, outputs |-> <<>>, axes |-> <<>>, opset |-> 0, weights |-> "none"]

\* A file of the output directory: the run that wrote it last (0: the file
\* does not exist), whether that write completed, the run whose model.onnx
\* it was derived from (quantized file only), the graph it holds, and the
\* processes that have it open for writing or for reading.
NoFile == [by |-> 0, whole |-> FALSE, src |-> 0, graph |-> NoGraph, open |-> {}, readers |-> {}, torn |-> FALSE]

----------------------------------------------------------------------------
\* Control flow

Stages == <<"mkdir", "fetch", "persist", "export", "quantize", "report">>

\* The statements of the script that the model steps through, in program order.
LineOrder == <<"L14", "L17", "L18", "L21", "L22", "L25", "L33", "L53", "L59", "L66", "L71">>

StageOf(line) ==
    CASE line = "L14" -> "mkdir"
      [] line \in {"L17", "L18"} -> "fetch"
      [] line \in {"L21", "L22"} -> "persist"
      [] line \in {"L25", "L33"} -> "export"
      [] line = "L53" -> "quantize"
      [] line = "L59" -> "report"
      [] OTHER -> "main"

IndexOf(seq, x) == CHOOSE i \in 1..Len(seq) : seq[i] = x

\* A variant of the control flow that goes from saving straight to quantizing.
SuccSkipExport(line) ==
    IF line = "L22" THEN "L53"
    ELSE IF line = "L71" THEN "end"
    ELSE LineOrder[IndexOf(LineOrder, line) + 1]

\* The statement that follows `line` when it completes without raising.
Succ(line) ==
    IF line = "L71" THEN "end" ELSE LineOrder[IndexOf(LineOrder, line) + 1]

\* A variant with a guard of its own around the export call.
OnRaiseContinue(line) == IF line = "L33" THEN "L53" ELSE "L73"

\* Where control goes when `line` raises: every statement of
\* download_and_convert runs inside the try of the main block.
OnRaise(line) == "L73"

\* The file a stage statement writes.
Target(line) ==
    CASE line = "L21" -> tokenizer_files
      [] line = "L22" -> model_files
      [] line = "L33" -> onnx_path
      [] line = "L53" -> quantized_path

SuccessMsg == <<"Conversion completed successfully", <<>>>>

\* What print writes after `line` has completed.
Prints(line) ==
    CASE line = "L14" -> << <<"Downloading from Hugging Face", <<model_name>>>> >>
      [] line = "L18" -> << <<"Saving model and tokenizer locally", <<>>>> >>
      [] line = "L22" -> << <<"Converting to ONNX format", <<>>>> >>
      [] line = "L33" -> << <<"Model exported to", onnx_path>>, <<"Quantizing model for mobile deployment", <<>>>> >>
      [] line = "L59" -> << <<"Quantized model saved to", quantized_path>>,
                            <<"Model files", <<>>>>,
                            <<"Full precision", onnx_path>>,
                            <<"Quantized", quantized_path>>,
                            <<"Recommended for Android", <<PathName(quantized_path)>>>>,
                            <<"Next step: Copy", <<PathName(quantized_path)>>>> >>
      [] line = "L71" -> << SuccessMsg >>
      [] OTHER -> <<>>

\* The handler's message names the exception; the trace names its origin.
ErrorMsg(e) == <<"Error during conversion", e>>

TracebackMsg(e) == <<"Traceback", e>>

----------------------------------------------------------------------------
\* Building blocks of the actions

\* Why a statement raised: the library or the environment failed (network,
\* disk, permission, unsupported operator), the output path exists and is
\* no directory, or the graph handed to the quantizer cannot be loaded.
External == "external failure"

FileExists == "FileExistsError"

Malformed == "malformed input"

NotFailed == <<>>

\* The position of a run inside the writing call of `line`.
Writing(line) ==
    CASE line = "L21" -> "L21w"
      [] line = "L22" -> "L22w"
      [] line = "L33" -> "L33w"
      [] line = "L53" -> "L53w"

\* A graph file can be loaded when it exists and was written to its end.
Readable(g) == files[g].by # 0 /\ files[g].whole

\* `line` starts executing.
Enter(r, line) ==
    /\ pc[r] = line
    /\ trace' = [trace EXCEPT ![r] = Append(@, line)]

\* `line` has completed: its trailing prints run and control moves on.
Advance(r, line) ==
    /\ pc' = [pc EXCEPT ![r] = Succ(line)]
    /\ out' = [out EXCEPT ![r] = @ \o Prints(line)]
    /\ completed' = [completed EXCEPT ![r] = IF StageOf(Succ(line)) # StageOf(line) THEN @ \cup {StageOf(line)} ELSE @]
    /\ UNCHANGED failedAt

\* `line` raises an Exception; `why` tells what raised it.
Raise(r, line, why) ==
    /\ pc' = [pc EXCEPT ![r] = OnRaise(line)]
    /\ failedAt' = [failedAt EXCEPT ![r] = <<line, why>>]
    /\ UNCHANGED <<out, completed>>

\* A library call that touches no file of the output directory.
Call(r, line) ==
    /\ Enter(r, line)
    /\ \/ Advance(r, line)
       \/ Raise(r, line, External)
    /\ UNCHANGED <<caught, retval, exit, seen, wrote, dirKind, files>>

\* The call at `line` opens its target for writing (truncating it), or
\* raises before it has touched the file.
OpenForWrite(r, line, src, graph, reads) ==
    LET f == PathName(Target(line)) IN
    /\ Enter(r, line)
    /\ \/ /\ \A g \in reads : Readable(g)
          /\ pc' = [pc EXCEPT ![r] = Writing(line)]
          /\ files' = [g \in FileNames |->
                IF g = f
                THEN [by |-> r, whole |-> FALSE, src |-> src, graph |-> graph, open |-> files[g].open \cup {r}, readers |-> files[g].readers, torn |-> files[g].open # {}]
                ELSE IF g \in reads THEN [files[g] EXCEPT !.readers = @ \cup {r}]
                ELSE files[g]]
          /\ wrote' = [wrote EXCEPT ![r] = @ \cup {<<StageOf(line), f>>}]
          /\ UNCHANGED <<out, completed, failedAt>>
       \/ /\ \E why \in {External} \cup (IF \A g \in reads : Readable(g) THEN {} ELSE {Malformed}) : Raise(r, line, why)
          /\ UNCHANGED <<files, wrote>>
    /\ UNCHANGED <<caught, retval, exit, seen, dirKind>>

\* What a write leaves when it ends: the file is closed; it is whole when
\* the write was undisturbed, anything when it was not.
Closed(r, f, done) ==
    [g \in FileNames |->
        IF g = f THEN [files[g] EXCEPT !.open = @ \ {r}, !.whole = done]
        ELSE [files[g] EXCEPT !.readers = @ \ {r}]]

Undisturbed(r, f) ==
    /\ files[f].by = r
    /\ ~files[f].torn
    /\ \A g \in FileNames : r \in files[g].readers => (files[g].by = files[f].src /\ files[g].whole)

\* The call at `line` completes its write and returns, or raises midway
\* and leaves what it has written so far.
CloseWrite(r, line) ==
    LET f == PathName(Target(line)) IN
    /\ pc[r] = Writing(line)
    /\ \/ /\ Advance(r, line)
          /\ \/ /\ Undisturbed(r, f)
                /\ files' = Closed(r, f, TRUE)
             \/ /\ ~Undisturbed(r, f)
                /\ \E ok \in BOOLEAN : files' = Closed(r, f, ok /\ files[f].by = r)
       \/ /\ Raise(r, line, External)
          /\ files' = Closed(r, f, files[f].whole)
    /\ UNCHANGED <<trace, caught, retval, exit, seen, wrote, dirKind>>

----------------------------------------------------------------------------
\* The script, statement by statement

TypeOK ==
    /\ pc \in [Runs -> {"idle", "L14", "L17", "L18", "L21", "L21w", "L22", "L22w", "L25", "L33", "L33w", "L53", "L53w", "L59", "L66", "L71", "L73", "L75", "end", "done"}]
    /\ dirKind \in {"absent", "dir", "file"}
    /\ DOMAIN files = FileNames
    /\ \A r \in Runs : caught[r] \in 0..1

\* Before the first run the output path is absent, an (empty) directory,
\* or something that is no directory.
Init ==
    /\ pc = [r \in Runs |-> "idle"]
    /\ out = [r \in Runs |-> <<>>]
    /\ trace = [r \in Runs |-> <<>>]
    /\ completed = [r \in Runs |-> {}]
    /\ failedAt = [r \in Runs |-> NotFailed]
    /\ caught = [r \in Runs |-> 0]
    /\ retval = [r \in Runs |-> <<>>]
    /\ exit = [r \in Runs |-> [path |-> "running", status |-> 0, explicit |-> FALSE]]
    /\ seen = [r \in Runs |-> [kind |-> "unseen", names |-> {}]]
    /\ wrote = [r \in Runs |-> {}]
    /\ dirKind \in {"absent", "dir", "file"}
    /\ files = [f \in FileNames |-> NoFile]

Present == {f \in FileNames : files[f].by # 0}

\* The interpreter starts the main block of run r.
Launch(r) ==
    /\ pc[r] = "idle"
    /\ pc' = [pc EXCEPT ![r] = "L14"]
    /\ seen' = [seen EXCEPT ![r] = [kind |-> dirKind, names |-> Present]]
    /\ UNCHANGED <<out, trace, completed, failedAt, caught, retval, exit, wrote, dirKind, files>>

\* Runs one after the other: a run starts when the one before it has ended.
Start(r) ==
    /\ \A q \in Runs : q < r => pc[q] = "done"
    /\ Launch(r)

\* Two processes started in the same working directory, at any time.
StartConcurrent(r) ==
    /\ r \in Instances
    /\ Launch(r)

\* mkdir without exist_ok raises whenever the path exists.
MkdirRaisesNoExistOk(kind) == kind # "absent"

\* Path.mkdir(exist_ok=True) raises FileExistsError only when the path
\* exists and is not a directory.
MkdirRaises(kind) == kind = "file"

\* output_dir.mkdir(exist_ok=True), then the first progress message.
Mkdir(r) ==
    /\ Enter(r, "L14")
    /\ \/ /\ ~MkdirRaises(dirKind)
          /\ dirKind' = "dir"
          /\ Advance(r, "L14")
       \/ /\ Raise(r, "L14", IF MkdirRaises(dirKind) THEN FileExists ELSE External)
          /\ UNCHANGED dirKind
    /\ UNCHANGED <<caught, retval, exit, seen, wrote, files>>

\* AutoTokenizer.from_pretrained(model_name)
FetchTokenizer(r) == Call(r, "L17")

\* AutoModel.from_pretrained(model_name)
FetchModel(r) == Call(r, "L18")

\* tokenizer.save_pretrained(output_dir)
SaveTokenizer(r) == OpenForWrite(r, "L21", 0, NoGraph, {})

SaveTokenizerDone(r) == CloseWrite(r, "L21")

\* model.save_pretrained(output_dir)
SaveModel(r) == OpenForWrite(r, "L22", 0, NoGraph, {})

SaveModelDone(r) == CloseWrite(r, "L22")

\* model.eval() and the tokenization of the dummy sentence
Tokenize(r) == Call(r, "L25")

\* A variant that keeps a model.onnx that is already there.
ExportIfMissing(r) ==
    IF Readable(PathName(onnx_path))
    THEN /\ Enter(r, "L33")
         /\ Advance(r, "L33")
         /\ UNCHANGED <<caught, retval, exit, seen, wrote, dirKind, files>>
    ELSE OpenForWrite(r, "L33", 0, ExportedGraph, {})

\* torch.onnx.export(model, ..., str(onnx_path), ...)
Export(r) == OpenForWrite(r, "L33", 0, ExportedGraph, {})

ExportDone(r) == CloseWrite(r, "L33")

\* quantize_dynamic(str(onnx_path), str(quantized_path), ...): loads the
\* graph at onnx_path and writes its quantized form to quantized_path.
QuantizeDynamic(r) ==
    LET input == files[PathName(onnx_path)] IN
    OpenForWrite(r, "L53", input.by, Quantized(input.graph), {PathName(onnx_path)})

QuantizeDone(r) == CloseWrite(r, "L53")

\* The closing prints of download_and_convert.
Report(r) ==
    /\ Enter(r, "L59")
    /\ Advance(r, "L59")
    /\ UNCHANGED <<caught, retval, exit, seen, wrote, dirKind, files>>

\* A variant that returns the full-precision path.
ReturnFullPrecision(r) ==
    /\ Enter(r, "L66")
    /\ retval' = [retval EXCEPT ![r] = onnx_path]
    /\ Advance(r, "L66")
    /\ UNCHANGED <<caught, exit, seen, wrote, dirKind, files>>

\* return quantized_path, assigned to model_path in the main block.
Return(r) ==
    /\ Enter(r, "L66")
    /\ retval' = [retval EXCEPT ![r] = quantized_path]
    /\ Advance(r, "L66")
    /\ UNCHANGED <<caught, exit, seen, wrote, dirKind, files>>

\* print of the success message, the last statement of the try block.
PrintSuccess(r) ==
    /\ Enter(r, "L71")
    /\ Advance(r, "L71")
    /\ UNCHANGED <<caught, retval, exit, seen, wrote, dirKind, files>>

\* A variant whose handler empties the output directory.
ExceptPrintCleanup(r) ==
    /\ pc[r] = "L73"
    /\ caught' = [caught EXCEPT ![r] = @ + 1]
    /\ out' = [out EXCEPT ![r] = Append(@, ErrorMsg(failedAt[r]))]
    /\ pc' = [pc EXCEPT ![r] = "L75"]
    /\ files' = [f \in FileNames |-> NoFile]
    /\ UNCHANGED <<trace, completed, failedAt, retval, exit, seen, wrote, dirKind>>

\* except Exception as e: print of the error message.
ExceptPrint(r) ==
    /\ pc[r] = "L73"
    /\ caught' = [caught EXCEPT ![r] = @ + 1]
    /\ out' = [out EXCEPT ![r] = Append(@, ErrorMsg(failedAt[r]))]
    /\ pc' = [pc EXCEPT ![r] = "L75"]
    /\ UNCHANGED <<trace, completed, failedAt, retval, exit, seen, wrote, dirKind, files>>

\* A variant in which the success message follows the handler.
TracebackThenSuccess(r) ==
    /\ pc[r] = "L75"
    /\ out' = [out EXCEPT ![r] = Append(@, TracebackMsg(failedAt[r]))]
    /\ pc' = [pc EXCEPT ![r] = "L71"]
    /\ UNCHANGED <<trace, completed, failedAt, caught, retval, exit, seen, wrote, dirKind, files>>

\* traceback.print_exc(), the last statement of the handler.
Traceback(r) ==
    /\ pc[r] = "L75"
    /\ out' = [out EXCEPT ![r] = Append(@, TracebackMsg(failedAt[r]))]
    /\ pc' = [pc EXCEPT ![r] = "end"]
    /\ UNCHANGED <<trace, completed, failedAt, caught, retval, exit, seen, wrote, dirKind, files>>

\* The script has no statement left: the interpreter ends the process the
\* ordinary way, with status 0; no exit routine is called anywhere.
Exit(r) ==
    /\ pc[r] = "end"
    /\ exit' = [exit EXCEPT ![r] = [path |-> "normal", status |-> 0, explicit |-> FALSE]]
    /\ pc' = [pc EXCEPT ![r] = "done"]
    /\ UNCHANGED <<out, trace, completed, failedAt, caught, retval, seen, wrote, dirKind, files>>

\* One step of run r once it has started.
Step(r) ==
    \/ Mkdir(r)
    \/ FetchTokenizer(r)
    \/ FetchModel(r)
    \/ SaveTokenizer(r)
    \/ SaveTokenizerDone(r)
    \/ SaveModel(r)
    \/ SaveModelDone(r)
    \/ Tokenize(r)
    \/ Export(r)
    \/ ExportDone(r)
    \/ QuantizeDynamic(r)
    \/ QuantizeDone(r)
    \/ Report(r)
    \/ Return(r)
    \/ PrintSuccess(r)
    \/ ExceptPrint(r)
    \/ Traceback(r)
    \/ Exit(r)

Next == \E r \in Runs : Start(r) \/ Step(r)

\* Runs of the script one after the other in one working directory.
Spec == Init /\ [][Next]_vars

\* A started process keeps executing: every call returns or raises.
LiveSpec == Spec /\ \A r \in Runs : WF_vars(Step(r))

NextConcurrent == \E r \in Instances : StartConcurrent(r) \/ Step(r)

\* Two processes of the script interleaved in one working directory.
SpecConcurrent == Init /\ [][NextConcurrent]_vars

----------------------------------------------------------------------------
\* Vocabulary of the properties

Ended(r) == pc[r] = "done"

Failed(r) == failedAt[r] # NotFailed

FailedLine(r) == failedAt[r][1]

FailedWhy(r) == failedAt[r][2]

\* No later run has started: the directory is as run r left or leaves it.
Latest(r) == \A q \in Runs : q > r => pc[q] = "idle"

Range(seq) == {seq[i] : i \in 1..Len(seq)}

Count(seq, x) == Cardinality({i \in 1..Len(seq) : seq[i] = x})

IsPrefix(s, t) == Len(s) <= Len(t) /\ \A i \in 1..Len(s) : s[i] = t[i]

StageIndex(s) == IF s = "main" THEN Len(Stages) + 1 ELSE IndexOf(Stages, s)

InHandlerOrOver(r) == pc[r] \in {"L73", "L75", "end", "done"}

----------------------------------------------------------------------------
\* C1: in every run the stages execute in the strict order mkdir/fetch ->
\* persist -> export -> quantize -> report: the statements executed are a
\* prefix of the program order (none skipped, none twice), a stage starts
\* only when every stage before it has completed, a completed stage did not
\* fail, and a run that ends without failure has executed every stage.
C1_StrictStageOrder ==
    \A r \in Runs :
        /\ IsPrefix(trace[r], LineOrder)
        /\ \A i \in 1..Len(trace[r]) : \A s \in Range(Stages) :
              StageIndex(s) < StageIndex(StageOf(trace[r][i])) => s \in completed[r]
        /\ \A s \in completed[r] : ~(Failed(r) /\ StageOf(FailedLine(r)) = s)
        /\ (Ended(r) /\ ~Failed(r)) =>
              /\ {StageOf(trace[r][i]) : i \in 1..Len(trace[r])} \ {"main"} = {"mkdir", "fetch", "persist", "export", "quantize", "report"}
              /\ completed[r] = {"mkdir", "fetch", "persist", "export", "quantize", "report"}
        /\ \A i, j \in 1..Len(trace[r]) : i < j => StageIndex(StageOf(trace[r][i])) <= StageIndex(StageOf(trace[r][j]))

\* A second run has gone through every stage over the files of a first one.
C1_Witness ==
    \E r \in Runs : r > 1 /\ Ended(r) /\ ~Failed(r) /\ ~Failed(1) /\ Len(trace[r]) = Len(LineOrder)

\* C2: a failure raised by any statement of the pipeline is caught once by
\* the guard of the main block, the error message is printed once, and
\* nothing of the pipeline executes after the failing statement: no later
\* stage, no retry, and no quantize after a failed export.
C2_FailureStopsPipeline ==
    \A r \in Runs : Failed(r) =>
        /\ InHandlerOrOver(r)
        /\ trace[r][Len(trace[r])] = FailedLine(r)
        /\ Count(trace[r], FailedLine(r)) = 1
        /\ caught[r] = IF pc[r] = "L73" THEN 0 ELSE 1
        /\ Count(out[r], ErrorMsg(failedAt[r])) = IF pc[r] = "L73" THEN 0 ELSE 1
        /\ SuccessMsg \notin Range(out[r])
        /\ StageOf(FailedLine(r)) = "export" => "L53" \notin Range(trace[r])
        /\ \A s \in Range(Stages) : StageIndex(s) > StageIndex(StageOf(FailedLine(r))) => s \notin completed[r]

\* An export failed while a loadable model.onnx of an earlier run was there.
C2_Witness ==
    \E r \in Runs : Ended(r) /\ Failed(r) /\ FailedLine(r) = "L33" /\ Readable("model.onnx") /\ files["model.onnx"].by < r

\* C3: after a run in which nothing failed, bge-small-onnx is a directory
\* holding model.onnx and bge-small-en-v1.5-quantized.onnx (both written to
\* their end by that run until a later run starts), and the path returned
\* and recommended is the quantized file's, never the full-precision one's.
C3_OutputsAndReturnedPath ==
    \A r \in Runs : (Ended(r) /\ ~Failed(r)) =>
        /\ dirKind = "dir"
        /\ output_dir = "bge-small-onnx"
        /\ files["model.onnx"].by # 0
        /\ files["bge-small-en-v1.5-quantized.onnx"].by # 0
        /\ Latest(r) => \A f \in {"model.onnx", "bge-small-en-v1.5-quantized.onnx"} : files[f].by = r /\ files[f].whole
        /\ retval[r] = <<"bge-small-onnx", "bge-small-en-v1.5-quantized.onnx">>
        /\ retval[r] # onnx_path
        /\ <<"Recommended for Android", <<"bge-small-en-v1.5-quantized.onnx">>>> \in Range(out[r])
        /\ <<"Recommended for Android", <<"model.onnx">>>> \notin Range(out[r])
        /\ out[r][Len(out[r])] = SuccessMsg

C3_Witness ==
    \E r \in Runs : Ended(r) /\ ~Failed(r) /\ Latest(r) /\ retval[r] = quantized_path /\ files["bge-small-en-v1.5-quantized.onnx"].whole

\* C4: a run started on a directory left by earlier runs (complete or
\* partial) or on an absent one, in which no library or environment failure
\* occurs, raises nothing, overwrites every file and ends with the same set
\* of files.
C4_RerunDoesNotCrash ==
    \A r \in Runs : (Ended(r) /\ seen[r].kind \in {"absent", "dir"} /\ (Failed(r) => FailedWhy(r) # External)) =>
        /\ ~Failed(r)
        /\ Present = {"tokenizer files", "model files", "model.onnx", "bge-small-en-v1.5-quantized.onnx"}
        /\ Latest(r) => \A f \in FileNames : files[f].by = r /\ files[f].whole

\* A run has succeeded over the partial directory of a failed earlier run.
C4_Witness ==
    \E r \in Runs : r > 1 /\ Ended(r) /\ ~Failed(r) /\ Failed(r - 1) /\ seen[r].kind = "dir" /\ seen[r].names # {} /\ seen[r].names # FileNames

\* C5: a failure cleans nothing up: while and after the handler runs, every
\* file the run has written and every file that was there before is still
\* there, whole if its stage completed; and what a run executes depends on
\* where it fails alone, never on what the directory contained.
C5_NoCleanupNoInspection ==
    \A r \in Runs :
        /\ (Failed(r) /\ Latest(r)) =>
              /\ \A w \in wrote[r] : files[w[2]].by = r /\ (w[1] \in completed[r] => files[w[2]].whole)
              /\ \A f \in seen[r].names : files[f].by # 0
        /\ Failed(r) => FailedWhy(r) # Malformed /\ (FailedWhy(r) = FileExists => seen[r].kind = "file")
        /\ Ended(r) => trace[r] = IF Failed(r) THEN SubSeq(LineOrder, 1, IndexOf(LineOrder, FailedLine(r))) ELSE LineOrder

\* Quantize failed in a second run: its export and the earlier files remain.
C5_Witness ==
    \E r \in Runs : r > 1 /\ Ended(r) /\ Failed(r) /\ Latest(r) /\ FailedLine(r) = "L53" /\ files["model.onnx"].by = r /\ seen[r].names = FileNames

OwnerStage(f) ==
    CASE f \in {"tokenizer files", "model files"} -> "persist"
      [] f = "model.onnx" -> "export"
      [] f = "bge-small-en-v1.5-quantized.onnx" -> "quantize"

\* C6 (as amended): within one run every file is written by one stage only,
\* its own, and the quantize stage never writes model.onnx; this holds of
\* each of two interleaved processes too, which however are not isolated
\* from each other.
C6_StageOwnsItsFile ==
    \A r \in Runs :
        /\ \A v, w \in wrote[r] : v[2] = w[2] => v[1] = w[1]
        /\ \A w \in wrote[r] : w[1] = OwnerStage(w[2])
        /\ <<"quantize", "model.onnx">> \notin wrote[r]

\* Both interleaved processes have written all their files.
C6_Witness ==
    \A r \in Instances : Ended(r) /\ ~Failed(r) /\ Cardinality(wrote[r]) = 4

\* C6 (as stated): in addition, no process reads or writes a file that
\* another process is writing.
C6_NoContention ==
    /\ C6_StageOwnsItsFile
    /\ \A f \in FileNames : \A r \in files[f].open : \A q \in files[f].open \cup files[f].readers : q = r

\* C7: the graph the export stage writes declares axis 0 (batch) and axis 1
\* (sequence length) dynamic for exactly its declared inputs and outputs:
\* input_ids, attention_mask and last_hidden_state.
C7_DynamicAxesCoverNames ==
    LET g == files["model.onnx"].graph IN
    files["model.onnx"].by # 0 =>
        /\ DOMAIN g.axes = Range(g.inputs) \cup Range(g.outputs)
        /\ DOMAIN g.axes = {"input_ids", "attention_mask", "last_hidden_state"}
        /\ \A n \in DOMAIN g.axes : DOMAIN g.axes[n] = {0, 1} /\ g.axes[n][0] = "batch_size" /\ g.axes[n][1] = "sequence_length"

C7_Witness ==
    \E r \in Runs : "export" \in completed[r] /\ Readable("model.onnx") /\ files["model.onnx"].by = r

\* C8: a failed run prints the error message and the trace, calls no exit
\* routine, and leaves through the failure path of the runtime (a status
\* that tells the failure); a successful run calls no exit routine either.
C8_FailureExit ==
    \A r \in Runs : Ended(r) =>
        /\ ~exit[r].explicit
        /\ Failed(r) =>
              /\ ErrorMsg(failedAt[r]) \in Range(out[r])
              /\ TracebackMsg(failedAt[r]) \in Range(out[r])
              /\ exit[r].path = "failure" /\ exit[r].status # 0

\* C9: the quantized file is always derived from the model.onnx that the
\* export stage of the same run wrote, whatever earlier runs left behind.
C9_QuantizedFromOwnExport ==
    LET q == files["bge-small-en-v1.5-quantized.onnx"] IN
    /\ q.by # 0 => q.src = q.by
    /\ \A r \in Runs : (pc[r] = "L53w" \/ "quantize" \in completed[r]) => "export" \in completed[r]
    /\ \A r \in Runs : (Ended(r) /\ ~Failed(r) /\ Latest(r)) => (q.by = r /\ q.src = r /\ q.whole /\ q.graph = Quantized(ExportedGraph))

\* A run has quantized where an earlier run had left a loadable model.onnx.
C9_Witness ==
    \E r \in Runs : r > 1 /\ files["bge-small-en-v1.5-quantized.onnx"].by = r /\ "model.onnx" \in seen[r].names /\ "export" \in completed[1]

TerminalReports(r) == Count(out[r], SuccessMsg) + Count(out[r], ErrorMsg(failedAt[r]))

ReportsAreSound ==
    \A r \in Runs :
        /\ TerminalReports(r) <= 1
        /\ SuccessMsg \in Range(out[r]) => ({"fetch", "persist", "export", "quantize"} \subseteq completed[r] /\ ~Failed(r))
        /\ (\E m \in Range(out[r]) : m[1] = "Error during conversion") => Failed(r)

\* C10: every started run terminates having printed exactly one terminal
\* report: the success message, only after fetch, persist, export and
\* quantize have completed, or the error message, only if a statement
\* failed; never both.
C10_TerminatesWithOneReport ==
    /\ []ReportsAreSound
    /\ \A r \in Runs : (pc[r] # "idle") ~> (Ended(r) /\ TerminalReports(r) = 1)

C10_Witness ==
    \E r, q \in Runs : Ended(r) /\ Ended(q) /\ Failed(r) /\ ~Failed(q) /\ TerminalReports(r) = 1 /\ TerminalReports(q) = 1

====
